---- MODULE Spec2Model ----
(***************************************************************************)
(* Model of src-tauri/src/lib.rs: the Tauri backend of LocalMind.           *)
(*                                                                         *)
(*   greet(name)                  lib.rs:2-5                               *)
(*   set_app_theme(window, theme) lib.rs:7-15                              *)
(*   run()                        lib.rs:17-27                             *)
(*                                                                         *)
(* The host framework (the builder, the run loop, the windows, the command *)
(* dispatcher) is the environment: it is modelled by what run() and the    *)
(* handlers ask of it and by the result it hands back.                     *)
(***************************************************************************)
EXTENDS Naturals, Sequences, FiniteSets

VARIABLES
    pc,         \* position of run(): "default", "plugin", "invoke_handler",
                \* "run", "running", "expect", "returned", "panicked"
    plugins,    \* the Builder's plugin registrations, in call order
    handlers,   \* the commands registered with invoke_handler
    runResult,  \* what Builder::run returned: "none", "Ok" or an error name
    diag,       \* the panic message of the process ("" while none)
    theme,      \* host state: the theme of every window
    theme0,     \* the theme every window was created with
    calls,      \* the frontend's command invocations, in issue order
    requests    \* the set_theme requests the host received, in arrival order

vars == <<pc, plugins, handlers, runResult, diag, theme, theme0, calls, requests>>

(***************************************************************************)
(* Bounds and input domains.                                               *)
(***************************************************************************)
MaxCalls == 2

Windows == {"main", "settings"}

\* name arguments of greet: empty, plain, and text that looks like a placeholder
Names == {"", "World", "{}"}

\* theme arguments of set_app_theme: the two literals, wrong case, empty
ThemeArgs == {"dark", "light", "Dark", ""}

\* the ways Builder::run can fail to start
StartupErrors == {"Setup", "Runtime"}

NoWindow == "-"

(***************************************************************************)
(* tauri::Theme and Option<tauri::Theme>.                                  *)
(***************************************************************************)
ThemeDark == "Some(Dark)"

ThemeLight == "Some(Light)"

ThemeNone == "None"

ThemeOpts == {ThemeDark, ThemeLight, ThemeNone}

(***************************************************************************)
(* format!: the template is scanned left to right; "{}" is replaced by the *)
(* Display form of the next argument, every other character is copied.     *)
(* An argument's text is inserted as it is and is not scanned again.       *)
(***************************************************************************)
RECURSIVE Format(_, _)
Format(fmt, args) ==
    IF Len(fmt) = 0 THEN ""
    ELSE IF Len(fmt) >= 2 /\ SubSeq(fmt, 1, 2) = "{}"
         THEN Head(args) \o Format(SubSeq(fmt, 3, Len(fmt)), Tail(args))
         ELSE SubSeq(fmt, 1, 1) \o Format(SubSeq(fmt, 2, Len(fmt)), args)

GreetTemplate == "Hello, {}! You've been greeted from Rust!"

\* faulty variant of greet: the argument is formatted with {:?} (quoted)
greet_debug(name) == Format(GreetTemplate, <<"\"" \o name \o "\"">>)

\* fn greet(name: &str) -> String
greet(name) == Format(GreetTemplate, <<name>>)

(***************************************************************************)
(* set_app_theme, lines 9-13: the match on theme.as_str().                 *)
(***************************************************************************)
\* faulty variant: the match ignores case
theme_enum_nocase(t) ==
    IF t \in {"dark", "Dark", "DARK"} THEN ThemeDark
    ELSE IF t \in {"light", "Light", "LIGHT"} THEN ThemeLight
    ELSE ThemeNone

\* faulty variant: the two arms are swapped
theme_enum_swapped(t) ==
    IF t = "dark" THEN ThemeLight
    ELSE IF t = "light" THEN ThemeDark
    ELSE ThemeNone

theme_enum(t) ==
    IF t = "dark" THEN ThemeDark
    ELSE IF t = "light" THEN ThemeLight
    ELSE ThemeNone

(***************************************************************************)
(* The host framework, as the handlers and run() see it.                   *)
(***************************************************************************)
\* Window::set_theme(t) as the host carries it out: a request that succeeds
\* sets the window's theme to t, one that fails changes nothing.
HostSetTheme(th, w, t, ok) == IF ok THEN [th EXCEPT ![w] = t] ELSE th

\* the Result that Window::set_theme hands back
HostResult(ok) == IF ok THEN "Ok" ELSE "Err"

\* faulty variant of line 14: the Result is returned to the caller instead of dropped
discard_propagating(result) == IF result = "Err" THEN "Err" ELSE "()"

\* line 14, `let _ = ...`: the Result is dropped; the handler returns ()
discard(result) == "()"

(***************************************************************************)
(* run(), lines 18-27.                                                     *)
(***************************************************************************)
\* faulty variant: the opener plugin is registered before the filesystem plugin
PluginCalls_reordered == <<"dialog", "opener", "fs", "opener">>

\* the .plugin(...) calls of lines 20-23, in source order
PluginCalls == <<"dialog", "fs", "opener", "opener">>

\* tauri::generate_handler![greet, set_app_theme], line 24
HandlerList == {"greet", "set_app_theme"}

ExpectMsg == "error while running tauri application"

\* faulty variant: the startup error is swallowed and run() returns normally
expect_swallowing(result, msg) == [pc |-> "returned", diag |-> ""]

\* Result::expect(msg), line 26: Ok passes, Err(e) panics with "msg: e"
expect(result, msg) ==
    IF result = "Ok"
    THEN [pc |-> "returned", diag |-> ""]
    ELSE [pc |-> "panicked", diag |-> msg \o ": " \o result]

Init ==
    /\ pc = "default"
    /\ plugins = <<>>
    /\ handlers = {}
    /\ runResult = "none"
    /\ diag = ""
    /\ theme = [w \in Windows |-> ThemeNone]
    /\ theme0 = [w \in Windows |-> ThemeNone]
    /\ calls = <<>>
    /\ requests = <<>>

\* line 19: tauri::Builder::default()
BuilderDefault ==
    /\ pc = "default"
    /\ pc' = "plugin"
    /\ UNCHANGED <<plugins, handlers, runResult, diag, theme, theme0, calls, requests>>

\* lines 20-23: the next .plugin(...) call of the chain
Plugin ==
    /\ pc = "plugin"
    /\ Len(plugins) < Len(PluginCalls)
    /\ plugins' = Append(plugins, PluginCalls[Len(plugins) + 1])
    /\ pc' = IF Len(plugins') = Len(PluginCalls) THEN "invoke_handler" ELSE "plugin"
    /\ UNCHANGED <<handlers, runResult, diag, theme, theme0, calls, requests>>

\* line 24: .invoke_handler(generate_handler![...])
InvokeHandler ==
    /\ pc = "invoke_handler"
    /\ handlers' = HandlerList
    /\ pc' = "run"
    /\ UNCHANGED <<plugins, runResult, diag, theme, theme0, calls, requests>>

\* line 25: .run(context) starts the host run loop and blocks in it; the host
\* creates the windows, each with the theme its configuration gives it
RunStart ==
    /\ pc = "run"
    /\ pc' = "running"
    /\ theme' \in [Windows -> ThemeOpts]
    /\ theme0' = theme'
    /\ UNCHANGED <<plugins, handlers, runResult, diag, calls, requests>>

\* line 25: .run(context) cannot start the run loop and returns Err(e)
RunFail ==
    /\ pc = "run"
    /\ \E e \in StartupErrors : runResult' = e
    /\ pc' = "expect"
    /\ UNCHANGED <<plugins, handlers, diag, theme, theme0, calls, requests>>

\* line 25: the run loop ends and .run(context) returns Ok(())
AppExit ==
    /\ pc = "running"
    /\ runResult' = "Ok"
    /\ pc' = "expect"
    /\ UNCHANGED <<plugins, handlers, diag, theme, theme0, calls, requests>>

\* line 26: .expect("error while running tauri application")
Expect ==
    /\ pc = "expect"
    /\ pc' = expect(runResult, ExpectMsg).pc
    /\ diag' = expect(runResult, ExpectMsg).diag
    /\ UNCHANGED <<plugins, handlers, runResult, theme, theme0, calls, requests>>

(***************************************************************************)
(* Command dispatch and the two handlers.                                  *)
(***************************************************************************)
NewCall(cmd, w, a) ==
    [cmd |-> cmd, window |-> w, arg |-> a, st |-> "pending",
     local |-> "unset", ret |-> "pending"]

\* the frontend invokes a command; the host dispatches it to the handler
\* registered under that name (line 24), once the run loop is running
Invoke ==
    /\ pc = "running"
    /\ Len(calls) < MaxCalls
    /\ \E cmd \in handlers :
         \/ /\ cmd = "greet"
            /\ \E n \in Names : calls' = Append(calls, NewCall(cmd, NoWindow, n))
         \/ /\ cmd = "set_app_theme"
            /\ \E w \in Windows, t \in ThemeArgs :
                 calls' = Append(calls, NewCall(cmd, w, t))
    /\ UNCHANGED <<pc, plugins, handlers, runResult, diag, theme, theme0, requests>>

\* faulty variant of greet: the handler also resets the theme of every window
GreetRun_resetting(i) ==
    /\ pc = "running"
    /\ calls[i].cmd = "greet"
    /\ calls[i].st = "pending"
    /\ calls' = [calls EXCEPT ![i].st = "done", ![i].ret = greet(calls[i].arg)]
    /\ theme' = [w \in Windows |-> ThemeNone]
    /\ UNCHANGED <<pc, plugins, handlers, runResult, diag, theme0, requests>>

\* lines 3-5: greet runs to completion
GreetRun(i) ==
    /\ pc = "running"
    /\ calls[i].cmd = "greet"
    /\ calls[i].st = "pending"
    /\ calls' = [calls EXCEPT ![i].st = "done", ![i].ret = greet(calls[i].arg)]
    /\ UNCHANGED <<pc, plugins, handlers, runResult, diag, theme, theme0, requests>>

\* lines 9-13: set_app_theme computes theme_enum
SetThemeMatch(i) ==
    /\ pc = "running"
    /\ calls[i].cmd = "set_app_theme"
    /\ calls[i].st = "pending"
    /\ calls' = [calls EXCEPT ![i].st = "matched",
                              ![i].local = theme_enum(calls[i].arg)]
    /\ UNCHANGED <<pc, plugins, handlers, runResult, diag, theme, theme0, requests>>

\* faulty variant of line 14: a failed request is sent a second time
SetThemeCall_retrying(i, ok) ==
    /\ pc = "running"
    /\ calls[i].cmd = "set_app_theme"
    /\ calls[i].st = "matched"
    /\ LET req == [call |-> i, window |-> calls[i].window,
                   theme |-> calls[i].local, ok |-> ok]
       IN  requests' = IF ok THEN Append(requests, req)
                       ELSE Append(Append(requests, req), req)
    /\ theme' = HostSetTheme(theme, calls[i].window, calls[i].local, ok)
    /\ calls' = [calls EXCEPT ![i].st = "done", ![i].ret = discard(HostResult(ok))]
    /\ UNCHANGED <<pc, plugins, handlers, runResult, diag, theme0>>

\* faulty variant of line 14: the theme is applied to every window of the application
SetThemeCall_all_windows(i, ok) ==
    /\ pc = "running"
    /\ calls[i].cmd = "set_app_theme"
    /\ calls[i].st = "matched"
    /\ requests' = Append(requests, [call |-> i, window |-> calls[i].window,
                                     theme |-> calls[i].local, ok |-> ok])
    /\ theme' = IF ok THEN [w \in Windows |-> calls[i].local] ELSE theme
    /\ calls' = [calls EXCEPT ![i].st = "done", ![i].ret = discard(HostResult(ok))]
    /\ UNCHANGED <<pc, plugins, handlers, runResult, diag, theme0>>

\* line 14: one window.set_theme(theme_enum) request, its Result dropped
SetThemeCall(i, ok) ==
    /\ pc = "running"
    /\ calls[i].cmd = "set_app_theme"
    /\ calls[i].st = "matched"
    /\ requests' = Append(requests, [call |-> i, window |-> calls[i].window,
                                     theme |-> calls[i].local, ok |-> ok])
    /\ theme' = HostSetTheme(theme, calls[i].window, calls[i].local, ok)
    /\ calls' = [calls EXCEPT ![i].st = "done", ![i].ret = discard(HostResult(ok))]
    /\ UNCHANGED <<pc, plugins, handlers, runResult, diag, theme0>>

Next ==
    \/ BuilderDefault
    \/ Plugin
    \/ InvokeHandler
    \/ RunStart
    \/ RunFail
    \/ AppExit
    \/ Expect
    \/ Invoke
    \/ \E i \in 1..Len(calls) : GreetRun(i)
    \/ \E i \in 1..Len(calls) : SetThemeMatch(i)
    \/ \E i \in 1..Len(calls), ok \in BOOLEAN : SetThemeCall(i, ok)

Spec == Init /\ [][Next]_vars

(***************************************************************************)
(* Vocabulary of the properties.                                           *)
(***************************************************************************)
CallIds == 1..Len(calls)

ReqIds == 1..Len(requests)

IsGreet(i) == calls[i].cmd = "greet"

IsSetTheme(i) == calls[i].cmd = "set_app_theme"

Done(i) == calls[i].st = "done"

\* the requests the host received from invocation i
RequestsOf(i) == {k \in ReqIds : requests[k].call = i}

\* the successful requests for window w
OkRequests(w) == {k \in ReqIds : requests[k].window = w /\ requests[k].ok}

\* how often plugin p was registered
Registrations(p) == Cardinality({k \in 1..Len(plugins) : plugins[k] = p})

HasPrefix(s, p) == Len(s) >= Len(p) /\ SubSeq(s, 1, Len(p)) = p

\* invocation i finishes in this step
Completes(i) == calls[i].st # "done" /\ calls'[i].st = "done"

(***************************************************************************)
(* C1: for every theme argument other than exactly "dark" or "light"       *)
(* (empty, wrong case) set_app_theme asks the host for the unspecified     *)
(* theme (None) on the window it was given and returns normally.           *)
(***************************************************************************)
C1_UnrecognizedRequestsNone ==
    \A i \in CallIds :
        (IsSetTheme(i) /\ calls[i].arg \notin {"dark", "light"}) =>
            /\ calls[i].st \in {"matched", "done"} => calls[i].local = ThemeNone
            /\ Done(i) =>
                /\ calls[i].ret = "()"
                /\ \E k \in RequestsOf(i) :
                     /\ requests[k].theme = ThemeNone
                     /\ requests[k].window = calls[i].window

C1_Witness ==
    \E i, j \in CallIds :
        /\ IsSetTheme(i) /\ Done(i) /\ calls[i].arg = "Dark"
        /\ IsSetTheme(j) /\ Done(j) /\ calls[j].arg = ""
        /\ \A k \in ReqIds : requests[k].theme = ThemeNone

(***************************************************************************)
(* C2: set_app_theme(window, "dark") requests Dark on that window and      *)
(* "light" requests Light; when the host request succeeds the window's     *)
(* theme right after the call is that theme, whatever it was before.       *)
(***************************************************************************)
C2_DarkLightApplied ==
    [][\A i \in CallIds :
        (IsSetTheme(i) /\ Completes(i) /\ calls[i].arg \in {"dark", "light"}) =>
            LET r == requests'[Len(requests')]
                want == IF calls[i].arg = "dark" THEN ThemeDark ELSE ThemeLight
            IN  /\ Len(requests') = Len(requests) + 1
                /\ r.call = i
                /\ r.window = calls[i].window
                /\ r.theme = want
                /\ r.ok => theme'[calls[i].window] = want]_vars

C2_Witness ==
    \E i, j \in CallIds :
        /\ IsSetTheme(i) /\ Done(i) /\ calls[i].arg = "dark"
        /\ IsSetTheme(j) /\ Done(j) /\ calls[j].arg = "light"
        /\ calls[i].window = "main" /\ calls[j].window = "main"
        /\ theme0["main"] = ThemeNone
        /\ Len(requests) = 2
        /\ requests[1].call = j /\ requests[1].ok
        /\ requests[2].call = i /\ requests[2].ok
        /\ theme["main"] = ThemeDark

(***************************************************************************)
(* C3: set_app_theme never propagates an error: whatever the argument and  *)
(* whether the host request succeeded or failed, the handler returns ()    *)
(* and a failed request puts the application in no error state.            *)
(***************************************************************************)
C3_NeverPropagates ==
    /\ \A i \in CallIds : (IsSetTheme(i) /\ Done(i)) => calls[i].ret = "()"
    /\ \A k \in ReqIds : Done(requests[k].call) /\ calls[requests[k].call].ret = "()"
    /\ requests # <<>> => pc # "panicked" /\ diag = ""

C3_Witness ==
    \E k \in ReqIds :
        /\ ~requests[k].ok
        /\ calls[requests[k].call].ret = "()"
        /\ calls[requests[k].call].arg = "dark"
        /\ pc = "running"

(***************************************************************************)
(* C4: for every input n, the empty string included, greet(n) returns      *)
(* exactly "Hello, " + n + "! You've been greeted from Rust!".             *)
(***************************************************************************)
C4_GreetConcatenation ==
    \A i \in CallIds :
        (IsGreet(i) /\ Done(i)) =>
            calls[i].ret = "Hello, " \o calls[i].arg \o "! You've been greeted from Rust!"

C4_Witness ==
    \E i, j \in CallIds :
        /\ IsGreet(i) /\ Done(i) /\ calls[i].arg = ""
        /\ calls[i].ret = "Hello, ! You've been greeted from Rust!"
        /\ IsGreet(j) /\ Done(j) /\ calls[j].arg = "{}"
        /\ calls[j].ret = "Hello, {}! You've been greeted from Rust!"

(***************************************************************************)
(* C5: when run() hands control to the host run loop, each of the plugins  *)
(* dialog, filesystem and opener has been registered exactly once and      *)
(* nothing else has been registered.                                       *)
(***************************************************************************)
C5_PluginsRegisteredOnce ==
    pc = "running" =>
        /\ \A p \in {"dialog", "fs", "opener"} : Registrations(p) = 1
        /\ Len(plugins) = 3

(***************************************************************************)
(* C6: bootstrap is a fixed sequence: the dialog plugin, then the          *)
(* filesystem plugin, then the opener plugin, then the command handlers,   *)
(* and only then the run loop; the invokable commands are exactly greet    *)
(* and set_app_theme, and no command is dispatched before the handlers     *)
(* are registered.                                                         *)
(***************************************************************************)
PluginRank(p) == IF p = "dialog" THEN 1 ELSE IF p = "fs" THEN 2 ELSE 3

AllPlugins == {"dialog", "fs", "opener"}

C6_BootstrapOrder ==
    /\ \A k \in 1..Len(plugins) : plugins[k] \in AllPlugins
    /\ \A j, k \in 1..Len(plugins) :
         j < k => PluginRank(plugins[j]) <= PluginRank(plugins[k])
    /\ Registrations("opener") > 0 => Registrations("fs") > 0
    /\ Registrations("fs") > 0 => Registrations("dialog") > 0
    /\ handlers # {} =>
         /\ handlers = {"greet", "set_app_theme"}
         /\ \A p \in AllPlugins : Registrations(p) > 0
    /\ pc \in {"run", "running", "expect", "returned", "panicked"} =>
         handlers = {"greet", "set_app_theme"}
    /\ pc \in {"default", "plugin", "invoke_handler"} => handlers = {}
    /\ calls # <<>> =>
         /\ pc \in {"running", "expect", "returned"}
         /\ \A i \in CallIds : calls[i].cmd \in handlers

C6_Witness ==
    /\ pc = "running"
    /\ plugins[1] = "dialog"
    /\ \E i, j \in CallIds : IsGreet(i) /\ IsSetTheme(j)

(***************************************************************************)
(* C7: if the host run loop fails to start, run() ends the process with a  *)
(* panic whose message is "error while running tauri application": the     *)
(* failure is fatal, startup is not tried again and no command handler is  *)
(* invoked afterwards.                                                     *)
(***************************************************************************)
StartupFailed == runResult \in StartupErrors

C7_StartupFailureFatal ==
    /\ [](StartupFailed =>
            /\ pc \in {"expect", "panicked"}
            /\ calls = <<>>
            /\ pc = "panicked" => HasPrefix(diag, ExpectMsg))
    /\ [][(StartupFailed /\ pc = "expect") => pc' = "panicked"]_vars
    /\ [][pc # "panicked"]_vars

C7_Witness ==
    /\ pc = "panicked"
    /\ runResult = "Setup"
    /\ diag = "error while running tauri application: Setup"

(***************************************************************************)
(* C8 as stated: the outcome of a batch of invocations (every returned     *)
(* value, the final theme of every window) is the same for every ordering  *)
(* of the invocations: with every host request successful it is the        *)
(* outcome of running them one after the other in the order of issue.      *)
(***************************************************************************)
RECURSIVE InIssueOrder(_)
InIssueOrder(k) ==
    IF k = 0 THEN theme0
    ELSE IF IsSetTheme(k)
         THEN [InIssueOrder(k - 1) EXCEPT ![calls[k].window] = calls[k].local]
         ELSE InIssueOrder(k - 1)

AllDone == \A i \in CallIds : Done(i)

C8_OrderIndependent ==
    (AllDone /\ \A k \in ReqIds : requests[k].ok) => theme = InIssueOrder(Len(calls))

(***************************************************************************)
(* C8 amended: the handlers keep no state between invocations: a returned  *)
(* value and the theme selected depend on the invocation's own arguments   *)
(* only, and an invocation writes no window but its own.  The theme of a   *)
(* window is the one state invocations share: its final value is that of   *)
(* one of the successful requests made for that window (hence the same in  *)
(* every ordering when they all select the same theme), and the theme it   *)
(* was created with when there was none.                                   *)
(***************************************************************************)
ThemesRequested(w) == {requests[k].theme : k \in OkRequests(w)}

C8_SharedOnlyWindowTheme ==
    /\ \A i, j \in CallIds :
         (calls[i].cmd = calls[j].cmd /\ calls[i].arg = calls[j].arg) =>
            /\ (Done(i) /\ Done(j)) => calls[i].ret = calls[j].ret
            /\ (calls[i].st # "pending" /\ calls[j].st # "pending") =>
                   calls[i].local = calls[j].local
    /\ \A w \in Windows :
         IF ThemesRequested(w) = {}
         THEN theme[w] = theme0[w]
         ELSE theme[w] \in ThemesRequested(w)

C8_Witness ==
    /\ Len(calls) = 2
    /\ AllDone
    /\ IsSetTheme(1) /\ calls[1].arg = "dark" /\ calls[1].window = "main"
    /\ IsSetTheme(2) /\ calls[2].arg = "light" /\ calls[2].window = "main"
    /\ \A k \in ReqIds : requests[k].ok
    /\ requests[1].call = 2
    /\ theme["main"] = ThemeDark
    /\ theme["settings"] = theme0["settings"]

LastOk(w) == CHOOSE k \in OkRequests(w) : \A m \in OkRequests(w) : m <= k

C10_OneRequestLastWins ==
    /\ \A i \in CallIds :
         /\ Cardinality(RequestsOf(i)) = IF IsSetTheme(i) /\ Done(i) THEN 1 ELSE 0
         /\ \A k \in RequestsOf(i) :
              /\ requests[k].window = calls[i].window
              /\ requests[k].theme = calls[i].local
    /\ \A k \in ReqIds : requests[k].call \in CallIds
    /\ \A w \in Windows :
         theme[w] = IF OkRequests(w) = {} THEN theme0[w]
                    ELSE requests[LastOk(w)].theme

C10_Witness ==
    /\ Len(requests) = 2
    /\ requests[1].window = "main" /\ requests[1].ok /\ requests[1].theme = ThemeLight
    /\ requests[2].window = "main" /\ ~requests[2].ok /\ requests[2].theme = ThemeDark
    /\ theme0["main"] = ThemeNone
    /\ theme["main"] = ThemeLight
    /\ theme["settings"] = theme0["settings"]

====
